---- MODULE Spec2Model ----
(***************************************************************************)
(* Student registration for cultural events.                               *)
(*   the server    : Express handlers GET/POST/DELETE /students over a     *)
(*                   Mongoose "Student" collection                         *)
(*   public/app.js : browser client (form submit, list, delete, banner)    *)
(*                                                                         *)
(* Text values are sequences of one-character strings, so that trim,       *)
(* lowercase and String.includes are computed and not assumed.             *)
(***************************************************************************)
EXTENDS Integers, Sequences, FiniteSets, Bags, TLC

\* ------------------------------------------------------------------ bounds
MaxStudents == 3        \* documents ever constructed by POST handlers
MaxClock    == 1        \* readings of Date.now() (milliseconds) that occur
MaxInFlight == 2        \* POST handlers suspended between findOne and save
MaxOps      == 2        \* gestures of the user of the page (submit, click
                        \* on Remove, Ctrl+R)

\* ------------------------------------------------------------ text values
Undefined == <<"undefined">>          \* a field absent from the JSON body

IsSpace(c) == c = " "

RECURSIVE TrimStart(_)
TrimStart(s) ==
    IF s # <<>> /\ IsSpace(Head(s)) THEN TrimStart(Tail(s)) ELSE s

RECURSIVE TrimEnd(_)
TrimEnd(s) ==
    IF s # <<>> /\ IsSpace(s[Len(s)])
    THEN TrimEnd(SubSeq(s, 1, Len(s) - 1))
    ELSE s

\* String.prototype.trim / Mongoose `trim: true`
Trim(s) == TrimEnd(TrimStart(s))

LowerChar(c) ==
    CASE c = "A" -> "a"
      [] c = "B" -> "b"
      [] OTHER   -> c

\* String.prototype.toLowerCase / Mongoose `lowercase: true`
ToLowerCase(s) == [i \in 1..Len(s) |-> LowerChar(s[i])]

\* JavaScript `!v` for a body field that is a string or absent
Falsy(v) == v = Undefined \/ v = <<>>

\* absent, empty, or white space only
Blank(v) == v = Undefined \/ Trim(v) = <<>>

\* ------------------------------------------------------- request inputs
Fields == {"name", "rollNumber", "email", "phone", "event"}

FieldValues(f) ==
    CASE f = "name"       -> {Undefined, <<>>, <<" ">>}
      [] f = "rollNumber" -> {<<" ", "a">>, <<"b">>, <<"A">>}
      [] f = "email"      -> {<<" ", "A">>}
      [] f = "phone"      -> {Undefined}
      [] f = "event"      -> {Undefined, <<" ">>}

BaseInput ==
    [name |-> <<"a">>, rollNumber |-> <<"a">>, email |-> <<"A">>,
     phone |-> <<"a">>, event |-> <<"a">>]

\* request bodies: the base body with at most one field replaced
Inputs ==
    {[BaseInput EXCEPT ![f] = v] : <<f, v>> \in
        UNION {{<<g, w>> : w \in FieldValues(g)} : g \in Fields}}

\* :id path parameters: ObjectId strings, and strings that are not ObjectIds
IdParams ==
    {[oid |-> TRUE, n |-> k] : k \in 1..(MaxStudents + 1)}
        \cup {[oid |-> FALSE, n |-> 0]}

\* mongoose.Types.ObjectId.isValid
ObjectIdIsValid(id) == id.oid

\* ------------------------------------------------------------- messages
MsgAllRequired   == "All fields are required"
MsgDuplicate     == "Student with this roll number already exists"
MsgRegistered    == "Student registered successfully!"
MsgErrRegister   == "Error registering student"
MsgInvalidId     == "Invalid student ID"
MsgNotFound      == "Student not found"
MsgDeleted       == "Student deleted successfully!"
ErrDuplicateKey  == "E11000 duplicate key error"
ErrValidation    == "Student validation failed"
NoError          == "none"

\* ---------------------------------------------------------- record store
CastDocument_NoLowercase(in) ==
    [name       |-> IF in.name = Undefined THEN Undefined ELSE Trim(in.name),
     rollNumber |-> IF in.rollNumber = Undefined THEN Undefined
                    ELSE Trim(in.rollNumber),
     email      |-> IF in.email = Undefined THEN Undefined
                    ELSE Trim(in.email),
     phone      |-> IF in.phone = Undefined THEN Undefined ELSE Trim(in.phone),
     event      |-> in.event]

\* schema setters applied by `new Student({...})`
CastDocument(in) ==
    [name       |-> IF in.name = Undefined THEN Undefined ELSE Trim(in.name),
     rollNumber |-> IF in.rollNumber = Undefined THEN Undefined
                    ELSE Trim(in.rollNumber),
     email      |-> IF in.email = Undefined THEN Undefined
                    ELSE ToLowerCase(Trim(in.email)),
     phone      |-> IF in.phone = Undefined THEN Undefined ELSE Trim(in.phone),
     event      |-> in.event]

\* `required: true` on a String path: present and of non-zero length
RequiredOk(doc) == \A f \in Fields : doc[f] # Undefined /\ Len(doc[f]) > 0

UniqueIndexOk_NoIndex(st, doc) == TRUE

\* the unique index on rollNumber
UniqueIndexOk(st, doc) == \A s \in st : s.rollNumber # doc.rollNumber

\* Student.findOne({ rollNumber }): the filter is cast through the setters
FindOneByRoll(st, roll) == {s \in st : s.rollNumber = Trim(roll)}

\* newStudent.save(): validate, stamp, insert
Save(st, in, id, now) ==
    LET doc == CastDocument(in) IN
    IF ~RequiredOk(doc)
    THEN [err |-> ErrValidation, store |-> st, saved |-> <<>>]
    ELSE IF ~UniqueIndexOk(st, doc)
    THEN [err |-> ErrDuplicateKey, store |-> st, saved |-> <<>>]
    ELSE LET rec == [_id |-> id, name |-> doc.name,
                     rollNumber |-> doc.rollNumber, email |-> doc.email,
                     phone |-> doc.phone, event |-> doc.event,
                     createdAt |-> now]
         IN  [err |-> NoError, store |-> st \cup {rec}, saved |-> <<rec>>]

FindByIdAndDelete_Many(st, id) ==
    LET hit == {s \in st : s._id = id.n} IN
    [found |-> hit # {}, store |-> IF hit = {} THEN st ELSE {},
     doc |-> IF hit = {} THEN <<>> ELSE <<CHOOSE s \in hit : TRUE>>]

\* Student.findByIdAndDelete(id)
FindByIdAndDelete(st, id) ==
    LET hit == {s \in st : s._id = id.n} IN
    [found |-> hit # {}, store |-> st \ hit,
     doc |-> IF hit = {} THEN <<>> ELSE <<CHOOSE s \in hit : TRUE>>]

SortedByCreatedAtDesc_Unsorted(st) ==
    LET n == Cardinality(st) IN
    {l \in [1..n -> st] : \A i, j \in 1..n : i # j => l[i] # l[j]}

\* Student.find().sort({ createdAt: -1 }): every order of the documents that
\* is descending in createdAt (the order of equal keys is not determined)
SortedByCreatedAtDesc(st) ==
    LET n == Cardinality(st) IN
    {l \in [1..n -> st] :
        /\ \A i, j \in 1..n : i # j => l[i] # l[j]
        /\ \A i, j \in 1..n : i < j => l[i].createdAt >= l[j].createdAt}

\* ------------------------------------------------------- server handlers
\* app.post('/students'), up to the answer of `await Student.findOne`
PostCheck(st, in) ==
    IF \E f \in Fields : Falsy(in[f])
    THEN [done |-> TRUE, status |-> 400, message |-> MsgAllRequired]
    ELSE IF FindOneByRoll(st, in.rollNumber) # {}
    THEN [done |-> TRUE, status |-> 400, message |-> MsgDuplicate]
    ELSE [done |-> FALSE, status |-> 0, message |-> ""]

\* app.post('/students'), from `new Student` to the response
PostFinish(st, in, id, now) ==
    LET r == Save(st, in, id, now) IN
    IF r.err = NoError
    THEN [store |-> r.store, status |-> 201, message |-> MsgRegistered,
          error |-> NoError, data |-> r.saved]
    ELSE [store |-> r.store, status |-> 500, message |-> MsgErrRegister,
          error |-> r.err, data |-> <<>>]

\* app.delete('/students/:id')
DeleteHandler(st, id) ==
    IF ~ObjectIdIsValid(id)
    THEN [store |-> st, status |-> 400, message |-> MsgInvalidId,
          data |-> <<>>]
    ELSE LET r == FindByIdAndDelete(st, id) IN
         IF ~r.found
         THEN [store |-> r.store, status |-> 404, message |-> MsgNotFound,
               data |-> <<>>]
         ELSE [store |-> r.store, status |-> 200, message |-> MsgDeleted,
               data |-> r.doc]

\* `success` of a JSON response body
Success(status) == status \in {200, 201}

\* --------------------------------------------------------- client texts
\* the emoji prefixes are written (ok), (x) and (r)
OkPrefix  == "(ok) "
ErrPrefix == "(x) "

MsgNetworkSubmit ==
    <<"(x) Network error. Please check your connection and try again.">>
MsgNetworkDelete == <<"(x) Network error. Please try again.">>
MsgRefreshed     == <<"(r) Students list refreshed">>
MsgBadEmail      == <<"(x) Please enter a valid email address.">>
MsgBadPhone      == <<"(x) Please enter a valid 10-digit phone number.">>

\* key.charAt(0).toUpperCase() + key.slice(1)
Capitalize(key) ==
    CASE key = "name"       -> "Name"
      [] key = "rollNumber" -> "RollNumber"
      [] key = "email"      -> "Email"
      [] key = "phone"      -> "Phone"
      [] key = "event"      -> "Event"

MsgRequired(key) == <<ErrPrefix, Capitalize(key), " is required.">>

\* the markup showMessage writes into #messages
BannerHtml(message, type) ==
    <<"<div class=",
      IF type = "error" THEN "error-message" ELSE "success-message",
      ">">> \o message \o <<"</div>">>

Includes_Always(html, message) == TRUE

\* String.prototype.includes on the markup
Includes(html, message) ==
    \E i \in 1..(Len(html) - Len(message) + 1) :
        SubSeq(html, i, i + Len(message) - 1) = message

\* ----------------------------------------------------- client validation
PhoneMinDigits == 10

Digits == {"0", "1", "2", "3", "4", "5", "6", "7", "8", "9"}

IsDigit(c) == c \in Digits

\* /^[^\s@]+@[^\s@]+\.[^\s@]+$/
EmailRegexTest(s) ==
    /\ \A i \in 1..Len(s) : ~IsSpace(s[i])
    /\ Cardinality({i \in 1..Len(s) : s[i] = "@"}) = 1
    /\ \E p \in 2..Len(s) :
          /\ s[p] = "@"
          /\ \E q \in (p + 2)..(Len(s) - 1) : s[q] = "."

\* /^\d{10,}$/ on the value with every non-digit removed
PhoneRegexTest(s) == Len(SelectSeq(s, IsDigit)) >= PhoneMinDigits

FieldOrder == <<"name", "rollNumber", "email", "phone", "event">>

\* validateFormData: <<>> when the data passes, else the message shown
ValidateFormData(data) ==
    LET bad == {i \in 1..5 : data[FieldOrder[i]] = <<>>
                              \/ Trim(data[FieldOrder[i]]) = <<>>} IN
    IF bad # {}
    THEN MsgRequired(FieldOrder[CHOOSE i \in bad : \A j \in bad : i <= j])
    ELSE IF ~EmailRegexTest(data.email) THEN MsgBadEmail
    ELSE IF ~PhoneRegexTest(data.phone) THEN MsgBadPhone
    ELSE <<>>

\* the studentData object built from the form
StudentData(f) ==
    [name |-> Trim(f.name), rollNumber |-> Trim(f.rollNumber),
     email |-> Trim(f.email), phone |-> Trim(f.phone), event |-> f.event]

GoodPhone == <<"1", "2", "-", "3", "4", "-", "5", "6", "7", "-", "8", "9", "0">>
GoodEmail == <<"A", "@", "x", ".", "c">>

GoodForm ==
    [name |-> <<"a">>, rollNumber |-> <<" ", "a">>, email |-> GoodEmail,
     phone |-> GoodPhone, event |-> <<"a">>]

EmptyForm ==
    [name |-> <<>>, rollNumber |-> <<>>, email |-> <<>>, phone |-> <<>>,
     event |-> <<>>]

\* what the user may have typed when the form is submitted
Forms ==
    {GoodForm,
     [GoodForm EXCEPT !.phone = <<"1", "2", "3", "4", "5">>]}

\* ---------------------------------------------------------------- state
VARIABLES
    store,      \* the Student collection: a set of documents
    clock,      \* Date.now()
    nextId,     \* number of ObjectIds generated so far
    posts,      \* bag of the bodies of the POST handlers suspended at
                \* `await newStudent.save()`
    res,        \* the response most recently sent to a direct API caller
    form,       \* the values in the fields of #studentForm
    button,     \* the submit button: disabled flag and label
    sub,        \* the running handleFormSubmit call, its POST and its reply
    loads,      \* the running loadStudents calls, their GET and its reply
    loadSeq,    \* number of loadStudents calls started
    newest,     \* what the most recently started finished load rendered
    dels,       \* the running deleteStudent calls, their DELETE and its reply
    banner,     \* innerHTML of #messages
    timers,     \* pending setTimeout callbacks of showMessage, oldest first
    rendered,   \* what #studentsContainer and #studentsCount show
    ops         \* number of user gestures so far

clientVars == <<form, button, sub, loads, loadSeq, newest, dels, banner,
                timers, rendered, ops>>

vars == <<store, clock, nextId, posts, res, form, button, sub, loads,
          loadSeq, newest, dels, banner, timers, rendered, ops>>

NoResponse ==
    [n |-> 0, op |-> "none", status |-> 0, message |-> "", error |-> NoError,
     input |-> BaseInput, id |-> [oid |-> FALSE, n |-> 0], count |-> 0,
     data |-> <<>>]

LabelRegister    == "Register for Event"
LabelRegistering == "Registering..."

ButtonIdle == [disabled |-> FALSE, label |-> LabelRegister]
ButtonBusy == [disabled |-> TRUE, label |-> LabelRegistering]

NoResult == [success |-> FALSE, message |-> ""]

SubIdle ==
    [pc |-> "idle", data |-> StudentData(GoodForm), result |-> NoResult,
     load |-> 0]

ViewLoading == [kind |-> "loading", data |-> <<>>, count |-> 0]
ViewError   == [kind |-> "error", data |-> <<>>, count |-> 0]
ViewList(data, count) == [kind |-> "list", data |-> data, count |-> count]

\* ----------------------------------------------------------------- Init
\* the server has started; the page has loaded and initializeApp has called
\* loadStudents
Init ==
    /\ store = {}
    /\ clock = 0
    /\ nextId = 0
    /\ posts = EmptyBag
    /\ res = NoResponse
    /\ form = EmptyForm
    /\ button = ButtonIdle
    /\ sub = SubIdle
    /\ loads = {[n |-> 1, pc |-> "fetch", view |-> ViewLoading]}
    /\ loadSeq = 1
    /\ newest = [n |-> 0, view |-> ViewLoading]
    /\ dels = {}
    /\ banner = <<>>
    /\ timers = <<>>
    /\ rendered = ViewLoading
    /\ ops = 0

Respond(r) == res' = [r EXCEPT !.n = 1 - res.n]

Suspended == BagCardinality(posts)

\* -------------------------------------------------------- server actions
\* the readings Date.now() can give to the next save
Now == clock..MaxClock

\* GET /students from a direct caller
GetStudents ==
    /\ \E l \in SortedByCreatedAtDesc(store) :
          Respond([NoResponse EXCEPT !.op = "GET", !.status = 200,
                                     !.count = Len(l), !.data = l])
    /\ UNCHANGED <<store, clock, nextId, posts>>
    /\ UNCHANGED clientVars

\* POST /students from a direct caller, up to the answer of findOne
PostStudent(in) ==
    /\ LET c == PostCheck(store, in) IN
       IF c.done
       THEN /\ Respond([NoResponse EXCEPT !.op = "POST",
                            !.status = c.status, !.message = c.message,
                            !.input = in])
            /\ posts' = posts
       ELSE /\ Suspended < MaxInFlight
            /\ nextId + Suspended < MaxStudents
            /\ posts' = posts (+) SetToBag({in})
            /\ res' = res
    /\ UNCHANGED <<store, clock, nextId>>
    /\ UNCHANGED clientVars

\* POST /students from a direct caller, from `new Student` to the response
PostSave(in, now) ==
    /\ BagIn(in, posts)
    /\ clock' = now
    /\ LET r == PostFinish(store, in, nextId + 1, now)
       IN  /\ store' = r.store
           /\ Respond([NoResponse EXCEPT !.op = "POST", !.status = r.status,
                           !.message = r.message, !.error = r.error,
                           !.input = in, !.data = r.data])
    /\ nextId' = nextId + 1
    /\ posts' = posts (-) SetToBag({in})
    /\ UNCHANGED clientVars

\* DELETE /students/:id from a direct caller
DeleteStudentById(id) ==
    /\ LET r == DeleteHandler(store, id) IN
       /\ store' = r.store
       /\ Respond([NoResponse EXCEPT !.op = "DELETE", !.status = r.status,
                       !.message = r.message, !.id = id, !.data = r.data])
    /\ UNCHANGED <<clock, nextId, posts>>
    /\ UNCHANGED clientVars

Next ==
    \/ GetStudents
    \/ \E in \in Inputs : PostStudent(in)
    \/ \E in \in Inputs, now \in Now : PostSave(in, now)
    \/ \E id \in IdParams : DeleteStudentById(id)

Spec == Init /\ [][Next]_vars

\* -------------------------------------------------------- client actions
\* showMessage(message, type)
ShowMessage(message, type) ==
    /\ banner' = BannerHtml(message, type)
    /\ timers' = Append(timers, message)

\* loadStudents() up to `await fetch('/students')`
StartLoad ==
    /\ loadSeq' = loadSeq + 1
    /\ loads' = loads \cup
                  {[n |-> loadSeq + 1, pc |-> "fetch", view |-> ViewLoading]}
    /\ rendered' = ViewLoading

ResetButton_Missing == UNCHANGED button

\* the `finally` block of handleFormSubmit
ResetButton == button' = ButtonIdle

\* handleFormSubmit up to `await fetch`; the user has typed f and submits
HandleFormSubmit(f) ==
    /\ ops < MaxOps
    /\ ~button.disabled
    /\ sub.pc = "idle"
    /\ ops' = ops + 1
    /\ form' = f
    /\ LET data == StudentData(f)
           v    == ValidateFormData(data)
       IN  IF v # <<>>
           THEN /\ ShowMessage(v, "error")
                /\ UNCHANGED <<button, sub>>
           ELSE /\ button' = ButtonBusy
                /\ sub' = [pc |-> "fetch", data |-> data,
                           result |-> NoResult, load |-> 0]
                /\ UNCHANGED <<banner, timers>>
    /\ UNCHANGED <<loads, loadSeq, newest, dels, rendered>>
    /\ UNCHANGED <<store, clock, nextId, posts, res>>

\* the server runs the client's POST up to the answer of findOne
ServePostCheck ==
    /\ sub.pc = "fetch"
    /\ LET c == PostCheck(store, sub.data) IN
       sub' = IF c.done
              THEN [sub EXCEPT !.pc = "reply",
                               !.result = [success |-> Success(c.status),
                                           message |-> c.message]]
              ELSE [sub EXCEPT !.pc = "save"]
    /\ UNCHANGED <<form, button, loads, loadSeq, newest, dels, banner,
                   timers, rendered, ops>>
    /\ UNCHANGED <<store, clock, nextId, posts, res>>

\* the server runs the client's POST from `new Student` to the response
\* (the page shows no createdAt: the save reads the clock as it stands)
ServePostSave ==
    /\ sub.pc = "save"
    /\ LET r == PostFinish(store, sub.data, nextId + 1, clock) IN
       /\ store' = r.store
       /\ sub' = [sub EXCEPT !.pc = "reply",
                             !.result = [success |-> Success(r.status),
                                         message |-> r.message]]
    /\ nextId' = nextId + 1
    /\ UNCHANGED <<form, button, loads, loadSeq, newest, dels, banner,
                   timers, rendered, ops>>
    /\ UNCHANGED <<clock, posts, res>>

\* handleFormSubmit after `await response.json()`
SubmitReply ==
    /\ sub.pc = "reply"
    /\ IF sub.result.success
       THEN /\ ShowMessage(<<OkPrefix, sub.result.message>>, "success")
            /\ form' = EmptyForm
            /\ StartLoad
            /\ sub' = [sub EXCEPT !.pc = "load", !.load = loadSeq + 1]
            /\ UNCHANGED button
       ELSE /\ ShowMessage(<<ErrPrefix, sub.result.message>>, "error")
            /\ ResetButton
            /\ sub' = SubIdle
            /\ UNCHANGED <<form, loads, loadSeq, rendered>>
    /\ UNCHANGED <<newest, dels, ops>>
    /\ UNCHANGED <<store, clock, nextId, posts, res>>

\* handleFormSubmit when fetch rejects: `catch`, then `finally`
SubmitNetworkError ==
    /\ sub.pc \in {"fetch", "reply"}
    /\ ShowMessage(MsgNetworkSubmit, "error")
    /\ ResetButton
    /\ sub' = SubIdle
    /\ UNCHANGED <<form, loads, loadSeq, newest, dels, rendered,
                   ops>>
    /\ UNCHANGED <<store, clock, nextId, posts, res>>

\* the server runs a GET of the client
ServeGet(l) ==
    /\ l \in loads
    /\ l.pc = "fetch"
    /\ \E lst \in SortedByCreatedAtDesc(store) :
          loads' = (loads \ {l}) \cup
                     {[l EXCEPT !.pc = "reply",
                                !.view = ViewList(lst, Len(lst))]}
    /\ UNCHANGED <<form, button, sub, loadSeq, newest, dels, banner, timers,
                   rendered, ops>>
    /\ UNCHANGED <<store, clock, nextId, posts, res>>

\* the end of a loadStudents call, and of the handleFormSubmit awaiting it
FinishLoad(l, view) ==
    /\ rendered' = view
    /\ loads' = loads \ {l}
    /\ newest' = IF l.n > newest.n THEN [n |-> l.n, view |-> view]
                 ELSE newest
    /\ IF sub.pc = "load" /\ sub.load = l.n
       THEN ResetButton /\ sub' = SubIdle
       ELSE UNCHANGED <<button, sub>>
    /\ UNCHANGED <<form, loadSeq, dels, banner, timers, ops>>
    /\ UNCHANGED <<store, clock, nextId, posts, res>>

\* loadStudents after `await response.json()`
LoadReply(l) ==
    /\ l \in loads
    /\ l.pc = "reply"
    /\ FinishLoad(l, l.view)

\* loadStudents when fetch rejects
LoadNetworkError(l) ==
    /\ l \in loads
    /\ FinishLoad(l, ViewError)

\* the Ctrl+R shortcut
KeydownRefresh ==
    /\ ops < MaxOps
    /\ ops' = ops + 1
    /\ StartLoad
    /\ ShowMessage(MsgRefreshed, "success")
    /\ UNCHANGED <<form, button, sub, newest, dels>>
    /\ UNCHANGED <<store, clock, nextId, posts, res>>

RenderedIds ==
    IF rendered.kind = "list"
    THEN {rendered.data[i]._id : i \in 1..Len(rendered.data)}
    ELSE {}

\* deleteStudent(studentId) up to `await fetch`: the requests it adds
DeleteStudent(n, id, confirmDelete) ==
    IF confirmDelete
    THEN {[n |-> n, id |-> id, pc |-> "fetch", result |-> NoResult]}
    ELSE {}

\* a click on the Remove button of a rendered row: its inline onclick
\* handler calls deleteStudent, then the listener attached by
\* attachDeleteEventListeners calls it again; each call asks to confirm
ClickRemove(id, confirm1, confirm2) ==
    /\ ops < MaxOps
    /\ id \in RenderedIds
    /\ ops' = ops + 1
    /\ dels' = dels \cup DeleteStudent(2 * ops + 1, id, confirm1)
                     \cup DeleteStudent(2 * ops + 2, id, confirm2)
    /\ UNCHANGED <<form, button, sub, loads, loadSeq, newest, banner, timers,
                   rendered>>
    /\ UNCHANGED <<store, clock, nextId, posts, res>>

\* the server runs a DELETE of the client
ServeDelete(d) ==
    /\ d \in dels
    /\ d.pc = "fetch"
    /\ LET r == DeleteHandler(store, [oid |-> TRUE, n |-> d.id]) IN
       /\ store' = r.store
       /\ dels' = (dels \ {d}) \cup
                    {[d EXCEPT !.pc = "reply",
                               !.result = [success |-> Success(r.status),
                                           message |-> r.message]]}
    /\ UNCHANGED <<form, button, sub, loads, loadSeq, newest, banner, timers,
                   rendered, ops>>
    /\ UNCHANGED <<clock, nextId, posts, res>>

\* deleteStudent after `await response.json()`
DeleteReply(d) ==
    /\ d \in dels
    /\ d.pc = "reply"
    /\ dels' = dels \ {d}
    /\ IF d.result.success
       THEN /\ ShowMessage(<<OkPrefix, d.result.message>>, "success")
            /\ StartLoad
       ELSE /\ ShowMessage(<<ErrPrefix, d.result.message>>, "error")
            /\ UNCHANGED <<loads, loadSeq, rendered>>
    /\ UNCHANGED <<form, button, sub, newest, ops>>
    /\ UNCHANGED <<store, clock, nextId, posts, res>>

\* deleteStudent when fetch rejects
DeleteNetworkError(d) ==
    /\ d \in dels
    /\ dels' = dels \ {d}
    /\ ShowMessage(MsgNetworkDelete, "error")
    /\ UNCHANGED <<form, button, sub, loads, loadSeq, newest, rendered, ops>>
    /\ UNCHANGED <<store, clock, nextId, posts, res>>

\* the setTimeout callback of the oldest pending showMessage
TimerFire ==
    /\ timers # <<>>
    /\ IF Includes(banner, Head(timers))
       THEN banner' = <<>>
       ELSE banner' = banner
    /\ timers' = Tail(timers)
    /\ UNCHANGED <<form, button, sub, loads, loadSeq, newest, dels, rendered,
                   ops>>
    /\ UNCHANGED <<store, clock, nextId, posts, res>>

\* the steps of the running handleFormSubmit call: the server serving its
\* POST and the GET of its reload, and the page receiving the replies
SubmitProgress ==
    \/ ServePostCheck
    \/ ServePostSave
    \/ SubmitReply
    \/ \E l \in loads : l.n = sub.load /\ (ServeGet(l) \/ LoadReply(l))

ClientNext ==
    \/ \E f \in Forms : HandleFormSubmit(f)
    \/ KeydownRefresh
    \/ \E id \in RenderedIds, c1, c2 \in BOOLEAN : ClickRemove(id, c1, c2)
    \/ ServePostCheck
    \/ ServePostSave
    \/ \E l \in loads : ServeGet(l)
    \/ \E d \in dels : ServeDelete(d)
    \/ SubmitReply
    \/ SubmitNetworkError
    \/ \E l \in loads : LoadReply(l)
    \/ \E l \in loads : LoadNetworkError(l)
    \/ \E d \in dels : DeleteReply(d)
    \/ \E d \in dels : DeleteNetworkError(d)
    \/ TimerFire

ClientSpec == Init /\ [][ClientNext]_vars

\* a request that has been sent is served and its reply is delivered, unless
\* the fetch fails
FairClientSpec == ClientSpec /\ WF_vars(SubmitProgress)

\* ================================================================ claims
Responded == res'.n # res.n

\* C1: in every reachable state no two stored Student documents have the
\* same rollNumber, whatever the interleaving of POST /students handlers,
\* including two handlers that both pass the pre-check before either saves.
C1_RollNumberUnique ==
    \A s, t \in store : s.rollNumber = t.rollNumber => s = t

\* a handler passed the pre-check and its save met the document that a
\* concurrent handler had inserted meanwhile
C1_Witness ==
    /\ res.op = "POST"
    /\ res.error = ErrDuplicateKey
    /\ \E s \in store : s.rollNumber = Trim(res.input.rollNumber)

\* C2: a POST whose save is rejected with a duplicate-key conflict answers
\* 400 'Student with this roll number already exists', never 500.
C2_ConflictIs400 ==
    (res.op = "POST" /\ res.error = ErrDuplicateKey)
        => (res.status = 400 /\ res.message = MsgDuplicate)

\* C3: a POST with a field that is absent, empty or white space only
\* answers 400 'All fields are required' and leaves the store unchanged.
C3_BlankIs400 ==
    [][(Responded /\ res'.op = "POST"
            /\ \E f \in Fields : Blank(res'.input[f]))
        => (/\ res'.status = 400
            /\ res'.message = MsgAllRequired
            /\ store' = store)]_vars

\* C4: DELETE with a malformed id answers 400 'Invalid student ID', with a
\* well-formed id of no document 404 'Student not found', both leaving the
\* store unchanged; with the id of a stored document it answers 200 and
\* removes that document and no other.
C4_Delete ==
    [][(Responded /\ res'.op = "DELETE") =>
        LET hit == {s \in store : s._id = res'.id.n} IN
        /\ ~ObjectIdIsValid(res'.id) =>
              /\ res'.status = 400
              /\ res'.message = MsgInvalidId
              /\ store' = store
        /\ (ObjectIdIsValid(res'.id) /\ hit = {}) =>
              /\ res'.status = 404
              /\ res'.message = MsgNotFound
              /\ store' = store
        /\ (ObjectIdIsValid(res'.id) /\ hit # {}) =>
              /\ res'.status = 200
              /\ Cardinality(hit) = 1
              /\ store' = store \ hit
              /\ \A s \in hit : res'.data = <<s>>]_vars

\* a stored document was deleted and another one stayed
C4_Witness ==
    /\ res.op = "DELETE"
    /\ res.status = 200
    /\ store # {}
    /\ \A s \in store : s._id # res.id.n

\* the documents a body matches, email apart
Matching(st, in) ==
    {s \in st : /\ s.name = Trim(in.name)
                /\ s.rollNumber = Trim(in.rollNumber)
                /\ s.phone = Trim(in.phone)
                /\ s.event = in.event}

FreshValid(st, in) ==
    /\ \A f \in Fields : ~Blank(in[f])
    /\ \A s \in st : s.rollNumber # Trim(in.rollNumber)

\* C5 (as amended): a POST whose five fields are non-blank and whose
\* rollNumber is not in the store when it is saved answers 201, and every
\* listing of the store then holds exactly one document matching the body,
\* whose email is the lowercase of the trimmed email of the body.
C5_CreateThenList ==
    [][(Responded /\ res'.op = "POST" /\ FreshValid(store, res'.input)) =>
        /\ res'.status = 201
        /\ \A l \in SortedByCreatedAtDesc(store') :
              /\ Cardinality({i \in 1..Len(l) :
                                l[i] \in Matching(store', res'.input)}) = 1
              /\ \A i \in 1..Len(l) :
                    l[i] \in Matching(store', res'.input) =>
                        l[i].email = ToLowerCase(Trim(res'.input.email))]_vars

\* a body whose email has leading white space and a capital was stored
C5_Witness ==
    /\ res.op = "POST"
    /\ res.status = 201
    /\ res.input.email = <<" ", "A">>
    /\ \E s \in store : s._id = res.data[1]._id /\ s.email = <<"a">>

\* C5 as stated: the stored email is the lowercase of the email of the body.
C5_Original ==
    [][(Responded /\ res'.op = "POST" /\ FreshValid(store, res'.input)) =>
        /\ res'.status = 201
        /\ \A l \in SortedByCreatedAtDesc(store') :
              /\ Cardinality({i \in 1..Len(l) :
                                l[i] \in Matching(store', res'.input)}) = 1
              /\ \A i \in 1..Len(l) :
                    l[i] \in Matching(store', res'.input) =>
                        l[i].email = ToLowerCase(res'.input.email)]_vars

\* C6 (as amended): GET returns all stored documents with count equal to
\* their number, and a document with a later createdAt stands before every
\* document with an earlier createdAt.
C6_ListOrder ==
    res.op = "GET" =>
        /\ res.count = Len(res.data)
        /\ Len(res.data) = Cardinality(store)
        /\ {res.data[i] : i \in 1..Len(res.data)} = store
        /\ \A i, j \in 1..Len(res.data) :
              res.data[i].createdAt > res.data[j].createdAt => i < j

\* three documents listed, created at two different readings of the clock
C6_Witness ==
    /\ res.op = "GET"
    /\ Len(res.data) = 3
    /\ res.data[1].createdAt > res.data[3].createdAt

\* C6 as stated: a document created later stands before every document
\* created earlier (_id is the order of creation).
C6_Original ==
    res.op = "GET" =>
        /\ res.count = Len(res.data)
        /\ {res.data[i] : i \in 1..Len(res.data)} = store
        /\ \A i, j \in 1..Len(res.data) :
              res.data[i]._id > res.data[j]._id => i < j

\* the text a banner markup was written from
MessageOf(html) == SubSeq(html, 4, Len(html) - 1)

\* C7: a submit that passes validateFormData goes idle -> submitting ->
\* idle: the button is disabled with the changed label exactly while the
\* call runs; a success reply shows the success message, clears the form and
\* starts a reload; a failure reply or a network error shows an error
\* message and leaves the form as typed; and the call always ends with the
\* button enabled again.
C7_SubmitCycle ==
    /\ [](sub.pc # "idle" => button = ButtonBusy)
    /\ [](sub.pc = "idle" => button = ButtonIdle)
    /\ [][/\ (sub.pc = "idle" /\ sub'.pc # "idle") =>
                /\ sub'.pc = "fetch"
                /\ ValidateFormData(StudentData(form')) = <<>>
                /\ sub'.data = StudentData(form')
          /\ (sub.pc = "reply" /\ sub'.pc = "load") =>
                /\ sub.result.success
                /\ banner' = BannerHtml(<<OkPrefix, sub.result.message>>,
                                        "success")
                /\ form' = EmptyForm
                /\ loadSeq' = loadSeq + 1
                /\ sub'.load = loadSeq'
                /\ \E l \in loads' : l.n = loadSeq' /\ l.pc = "fetch"
          /\ (sub.pc \in {"fetch", "reply"} /\ sub'.pc = "idle") =>
                /\ form' = form
                /\ loadSeq' = loadSeq
                /\ banner' \in
                     {BannerHtml(<<ErrPrefix, sub.result.message>>, "error"),
                      BannerHtml(MsgNetworkSubmit, "error")}
                /\ timers' = Append(timers, MessageOf(banner'))
          /\ (sub.pc = "save") => sub'.pc \in {"save", "reply"}
          /\ (sub.pc = "load") => sub'.pc \in {"load", "idle"}]_vars
    /\ (sub.pc # "idle") ~> (sub.pc = "idle" /\ ~button.disabled)

\* a submit was registered, its reload finished and the page is idle again
\* with the form cleared
C7_Witness ==
    /\ sub.pc = "idle"
    /\ ~button.disabled
    /\ form = EmptyForm
    /\ store # {}
    /\ loads = {}
    /\ newest.n = loadSeq
    /\ loadSeq >= 2

\* C8: once a confirmed deleteStudent call gets its outcome (success,
\* failure response or network error) the client shows a message and
\* reloads the list; a declined prompt sends no request.
C8_ReloadAlways ==
    [][/\ (\E d \in dels : \A e \in dels' : e.n # d.n) =>
              /\ banner' # <<>>
              /\ loadSeq' = loadSeq + 1
       /\ \A id \in RenderedIds : ClickRemove(id, FALSE, FALSE) => dels' = dels
      ]_vars

\* C9: every message shown starts a timer; when the timer fires the banner
\* is cleared if it still shows that message and is left as it is if it
\* shows another text, so the timer of an earlier message never clears a
\* later, different message; and with no timer pending the banner is empty.
C9_Banner ==
    /\ [](timers = <<>> => banner = <<>>)
    /\ [](banner # <<>> =>
            \E i \in 1..Len(timers) : timers[i] = MessageOf(banner))
    /\ [][/\ (timers # <<>> /\ timers' = Tail(timers)) =>
                /\ (banner # <<>> /\ MessageOf(banner) = Head(timers))
                      => banner' = <<>>
                /\ (banner = <<>> \/ MessageOf(banner) # Head(timers))
                      => banner' = banner
          /\ Len(timers') > Len(timers) =>
                /\ banner' # <<>>
                /\ timers' = Append(timers, MessageOf(banner'))]_vars

\* the banner shows a later message while the timer of an earlier,
\* different message is the next to fire
C9_Witness ==
    /\ banner # <<>>
    /\ Len(timers) >= 2
    /\ Head(timers) # MessageOf(banner)
    /\ timers[Len(timers)] = MessageOf(banner)

\* C10: once every loadStudents call has finished, the list and count on
\* the page are those of the most recently started call.
C10_LatestLoadWins ==
    loads = {} => rendered = newest.view

====
